---- MODULE Spec2Model ----
(***************************************************************************)
(* A model of the `lambdas` placeholder library (src/lambdas/__init__.py): *)
(* the placeholder `_`, the immutable _Chain expressions built with & and  *)
(* |, the four operation variants of the dual dispatch, the mutable        *)
(* _MathExpression, and the remaining operator surface of _Callable.       *)
(*                                                                         *)
(* Python values are tagged pairs <<tag, payload>>; the tag is always a    *)
(* string and decides the shape of the payload:                            *)
(*   <<"int", n>>            an int                                        *)
(*   <<"float", <<n, d>>>>   a float, kept as the exact fraction n/d       *)
(*   <<"str", s>>            a str, s a sequence of one-character strings  *)
(*   <<"object", c>>         an instance of the class named c              *)
(*   <<"raise", e>>          the call raised the exception named e         *)
(*   <<"NotImplemented","">> the NotImplemented singleton                  *)
(*   <<"chain", i>>          a reference to the expression i (0 is `_`)    *)
(*   <<"math", i>>           a reference to the _MathExpression i          *)
(***************************************************************************)
EXTENDS Integers, Sequences, FiniteSets, TLC

VARIABLES chains, maths, last

vars == <<chains, maths, last>>

(***************************************************************************)
(* Bounds of the model.                                                    *)
(***************************************************************************)
MaxChains == 3
MaxClassChains == 2
MaxMaths == 2
MaxSteps == 2
MaxNumber == 1000
MaxObjects == 1

IntVal(n) == <<"int", n>>
StrVal(s) == <<"str", s>>
ObjVal(c) == <<"object", c>>
Raise(e) == <<"raise", e>>
NotImplemented == <<"NotImplemented", "">>
None == <<"None", "">>
ChainRef(i) == <<"chain", i>>

TypeOf(v) == IF v[1] = "object" THEN v[2] ELSE v[1]
IsRaise(v) == v[1] = "raise"

(***************************************************************************)
(* The host's int & int and int | int, on non-negative ints.               *)
(***************************************************************************)
RECURSIVE BitAnd(_, _)
BitAnd(a, b) ==
    IF a = 0 \/ b = 0 THEN 0
    ELSE (a % 2) * (b % 2) + 2 * BitAnd(a \div 2, b \div 2)

RECURSIVE BitOr(_, _)
BitOr(a, b) ==
    IF a = 0 THEN b
    ELSE IF b = 0 THEN a
    ELSE (IF a % 2 = 1 \/ b % 2 = 1 THEN 1 ELSE 0) + 2 * BitOr(a \div 2, b \div 2)

(***************************************************************************)
(* str(n) and repr(n) of a non-negative int: its decimal digits.           *)
(***************************************************************************)
Digits == <<"0", "1", "2", "3", "4", "5", "6", "7", "8", "9">>

RECURSIVE IntChars(_)
IntChars(n) ==
    IF n < 10 THEN <<Digits[n + 1]>>
    ELSE IntChars(n \div 10) \o <<Digits[(n % 10) + 1]>>

(***************************************************************************)
(* The operator methods of the operand classes.  a.__and__(b),             *)
(* b.__rand__(a), a.__or__(b), b.__ror__(a); a class without the method    *)
(* answers NotImplemented, which is what the host's dispatch makes of it.  *)
(***************************************************************************)
dunder_and(a, b) ==
    CASE TypeOf(a) = "int" ->
            IF TypeOf(b) = "int" THEN IntVal(BitAnd(a[2], b[2])) ELSE NotImplemented
      [] TypeOf(a) = "_ImplementsAnd" ->
            \* isinstance(other, str) and len(other) or NotImplemented
            IF TypeOf(b) = "str" /\ Len(b[2]) # 0 THEN IntVal(Len(b[2]))
            ELSE NotImplemented
      [] OTHER -> NotImplemented

dunder_rand(b, a) ==
    CASE TypeOf(b) = "int" ->
            IF TypeOf(a) = "int" THEN IntVal(BitAnd(a[2], b[2])) ELSE NotImplemented
      [] TypeOf(b) = "_ImplementsRAnd" ->
            \* isinstance(other, int) and str(other) or NotImplemented
            IF TypeOf(a) = "int" THEN StrVal(IntChars(a[2])) ELSE NotImplemented
      [] OTHER -> NotImplemented

dunder_or(a, b) ==
    CASE TypeOf(a) = "int" ->
            IF TypeOf(b) = "int" THEN IntVal(BitOr(a[2], b[2])) ELSE NotImplemented
      [] TypeOf(a) = "_ImplementsOr" ->
            IF TypeOf(b) = "str" /\ Len(b[2]) # 0 THEN IntVal(Len(b[2]))
            ELSE NotImplemented
      [] OTHER -> NotImplemented

dunder_ror(b, a) ==
    CASE TypeOf(b) = "int" ->
            IF TypeOf(a) = "int" THEN IntVal(BitOr(a[2], b[2])) ELSE NotImplemented
      [] TypeOf(b) = "_ImplementsROr" ->
            IF TypeOf(a) = "int" THEN StrVal(IntChars(a[2])) ELSE NotImplemented
      [] OTHER -> NotImplemented

(***************************************************************************)
(* The host's evaluation of `a & b` and `a | b`: the left operand's method *)
(* first; when it declines and the operands differ in type, the right      *)
(* operand's reflected method; when both decline, TypeError.               *)
(***************************************************************************)
PyAnd(a, b) ==
    LET l == dunder_and(a, b)
        r == dunder_rand(b, a)
    IN  IF l # NotImplemented THEN l
        ELSE IF TypeOf(a) # TypeOf(b) /\ r # NotImplemented THEN r
        ELSE Raise("TypeError")

PyOr(a, b) ==
    LET l == dunder_or(a, b)
        r == dunder_ror(b, a)
    IN  IF l # NotImplemented THEN l
        ELSE IF TypeOf(a) # TypeOf(b) /\ r # NotImplemented THEN r
        ELSE Raise("TypeError")

(***************************************************************************)
(* The four operation variants.  An operation is <<variant, operand>>.     *)
(***************************************************************************)
SomethingAnd_call(operand, arg) == PyAnd(operand, arg)
AndSomething_call(operand, arg) == PyAnd(arg, operand)
SomethingOr_call(operand, arg) == PyOr(operand, arg)
OrSomething_call(operand, arg) == PyOr(arg, operand)

Operation_call(operation, arg) ==
    CASE operation[1] = "_SomethingAnd" -> SomethingAnd_call(operation[2], arg)
      [] operation[1] = "_AndSomething" -> AndSomething_call(operation[2], arg)
      [] operation[1] = "_SomethingOr" -> SomethingOr_call(operation[2], arg)
      [] operation[1] = "_OrSomething" -> OrSomething_call(operation[2], arg)

AndPrecedence == 8
OrPrecedence == 10
CallablePrecedence == 0

Operation_precedence(operation) ==
    IF operation[1] \in {"_SomethingAnd", "_AndSomething"} THEN AndPrecedence
    ELSE OrPrecedence

(***************************************************************************)
(* repr() of an operand: the digits of an int, the quoted characters of a  *)
(* str, and the __repr__ of the operand classes of the tests.              *)
(***************************************************************************)
repr(v) ==
    CASE TypeOf(v) = "int" -> IntChars(v[2])
      [] TypeOf(v) = "str" -> <<"'">> \o v[2] \o <<"'">>
      [] TypeOf(v) \in {"_ImplementsAnd", "_ImplementsOr"} -> <<"h", "e", "l", "l", "o">>
      [] TypeOf(v) \in {"_ImplementsRAnd", "_ImplementsROr"} -> <<"h", "o", "w", "d", "y">>

SomethingAnd_as_string(operand, inner) == repr(operand) \o <<" ", "&", " ">> \o inner
AndSomething_as_string(operand, inner) == inner \o <<" ", "&", " ">> \o repr(operand)
SomethingOr_as_string(operand, inner) == repr(operand) \o <<" ", "|", " ">> \o inner
OrSomething_as_string(operand, inner) == inner \o <<" ", "|", " ">> \o repr(operand)

Operation_as_string(operation, inner) ==
    CASE operation[1] = "_SomethingAnd" -> SomethingAnd_as_string(operation[2], inner)
      [] operation[1] = "_AndSomething" -> AndSomething_as_string(operation[2], inner)
      [] operation[1] = "_SomethingOr" -> SomethingOr_as_string(operation[2], inner)
      [] operation[1] = "_OrSomething" -> OrSomething_as_string(operation[2], inner)

(***************************************************************************)
(* Expressions.  The heap h of _Chain objects is a sequence of records     *)
(* [previous, operation]; expression 0 is the _Callable singleton `_`, and *)
(* expression i > 0 is the chain h[i].                                     *)
(***************************************************************************)
Expressions(h) == 0..Len(h)

Chain_init(previous, operation) == [previous |-> previous, operation |-> operation]

\* A placeholder whose call forgets to return its argument.
Callable_call_no_return(arg) == None

Callable_call(arg) == arg

Callable_repr == <<"_">>

Chain_precedence(h, e) == Operation_precedence(h[e].operation)

Expression_precedence(h, e) ==
    IF e = 0 THEN CallablePrecedence ELSE Chain_precedence(h, e)

\* A chain that catches what its operation raises and returns None.
Chain_apply_catching(operation, inner) ==
    IF IsRaise(inner) \/ IsRaise(Operation_call(operation, inner)) THEN None
    ELSE Operation_call(operation, inner)

\* What the trailing operation of a chain receives and makes of it: the
\* exception of the previous expression passes through it.
Chain_apply(operation, inner) ==
    IF IsRaise(inner) THEN inner ELSE Operation_call(operation, inner)

RECURSIVE Expression_call(_, _, _)

\* A chain that runs its trailing operation first and its previous
\* expression on the result.
Chain_call_tip_first(h, e, arg) ==
    Expression_call(h, h[e].previous, Chain_apply(h[e].operation, arg))

Chain_call(h, e, arg) ==
    Chain_apply(h[e].operation, Expression_call(h, h[e].previous, arg))

Expression_call(h, e, arg) ==
    IF e = 0 THEN Callable_call(arg) ELSE Chain_call(h, e, arg)

\* Parentheses only when the previous expression binds strictly tighter.
Chain_wrap_strict(previous_precedence, operation_precedence, inner) ==
    IF previous_precedence < operation_precedence THEN inner
    ELSE <<"(">> \o inner \o <<")">>

Chain_wrap(previous_precedence, operation_precedence, inner) ==
    IF previous_precedence <= operation_precedence THEN inner
    ELSE <<"(">> \o inner \o <<")">>

RECURSIVE Expression_repr(_, _)
Chain_repr(h, e) ==
    Operation_as_string(
        h[e].operation,
        Chain_wrap(Expression_precedence(h, h[e].previous),
                   Operation_precedence(h[e].operation),
                   Expression_repr(h, h[e].previous)))

Expression_repr(h, e) ==
    IF e = 0 THEN Callable_repr ELSE Chain_repr(h, e)

\* The number of operations a call of e with arg invokes: every operation
\* up to and including the first that raises.
RECURSIVE Expression_invoked(_, _, _)
Expression_invoked(h, e, arg) ==
    IF e = 0 THEN 0
    ELSE Expression_invoked(h, h[e].previous, arg)
         + (IF IsRaise(Expression_call(h, h[e].previous, arg)) THEN 0 ELSE 1)

(***************************************************************************)
(* The host's arithmetic on ints and floats.  A float is kept as the exact *)
(* fraction n/d in lowest terms with d > 0 (the rounding of the host is    *)
(* not modelled).  Numbers are kept up to MaxNumber in numerator and       *)
(* denominator; a result outside them, or an irrational or complex power,  *)
(* is Beyond, and the model calls no expression with an input that leads   *)
(* there.                                                                  *)
(***************************************************************************)
Beyond == <<"beyond", "">>
ZeroDivisionError == Raise("ZeroDivisionError")

Abs(n) == IF n < 0 THEN -n ELSE n

RECURSIVE GCD(_, _)
GCD(a, b) == IF b = 0 THEN a ELSE GCD(b, a % b)

IntResult(n) == IF Abs(n) > MaxNumber THEN Beyond ELSE IntVal(n)

\* The float n/d, d # 0.
FloatVal(n, d) ==
    LET g == GCD(Abs(n), Abs(d))
        sign == IF d < 0 THEN -1 ELSE 1
        num == (sign * n) \div g
        den == (sign * d) \div g
    IN  IF Abs(num) > MaxNumber \/ den > MaxNumber THEN Beyond
        ELSE <<"float", <<num, den>>>>

IsNumber(v) == v[1] \in {"int", "float"}
BothInt(a, b) == a[1] = "int" /\ b[1] = "int"
Num(v) == IF v[1] = "int" THEN v[2] ELSE v[2][1]
Den(v) == IF v[1] = "int" THEN 1 ELSE v[2][2]

\* base ** exponent for ints, exponent >= 0, as acc * base ** exponent;
\* MaxNumber + 1 when the power is larger than MaxNumber.
RECURSIVE PowInt(_, _, _)
PowInt(base, exponent, acc) ==
    IF exponent = 0 THEN acc
    ELSE IF base = 0 THEN 0
    ELSE IF base = 1 THEN acc
    ELSE IF base = -1 THEN (IF exponent % 2 = 0 THEN acc ELSE -acc)
    ELSE IF Abs(acc * base) > MaxNumber THEN MaxNumber + 1
    ELSE PowInt(base, exponent - 1, acc * base)

operator_add(a, b) ==
    IF BothInt(a, b) THEN IntResult(a[2] + b[2])
    ELSE FloatVal(Num(a) * Den(b) + Num(b) * Den(a), Den(a) * Den(b))

operator_sub(a, b) ==
    IF BothInt(a, b) THEN IntResult(a[2] - b[2])
    ELSE FloatVal(Num(a) * Den(b) - Num(b) * Den(a), Den(a) * Den(b))

operator_mul(a, b) ==
    IF BothInt(a, b) THEN IntResult(a[2] * b[2])
    ELSE FloatVal(Num(a) * Num(b), Den(a) * Den(b))

operator_truediv(a, b) ==
    IF Num(b) = 0 THEN ZeroDivisionError
    ELSE FloatVal(Num(a) * Den(b), Den(a) * Num(b))

\* floor(a / b), b # 0
Floor(a, b) ==
    LET n == Num(a) * Den(b)
        d == Den(a) * Num(b)
    IN  IF d < 0 THEN (-n) \div (-d) ELSE n \div d

operator_floordiv(a, b) ==
    IF Num(b) = 0 THEN ZeroDivisionError
    ELSE IF BothInt(a, b) THEN IntResult(Floor(a, b))
    ELSE FloatVal(Floor(a, b), 1)

operator_mod(a, b) ==
    IF Num(b) = 0 THEN ZeroDivisionError
    ELSE IF BothInt(a, b) THEN IntResult(a[2] - b[2] * Floor(a, b))
    ELSE FloatVal(Num(a) * Den(b) - Floor(a, b) * Num(b) * Den(a), Den(a) * Den(b))

operator_pow(a, b) ==
    IF Den(b) # 1 THEN Beyond
    ELSE IF Num(a) = 0 /\ Num(b) < 0 THEN ZeroDivisionError
    ELSE LET n == PowInt(Num(a), Abs(Num(b)), 1)
             d == PowInt(Den(a), Abs(Num(b)), 1)
         IN  IF Abs(n) > MaxNumber \/ d > MaxNumber THEN Beyond
             ELSE IF BothInt(a, b) /\ Num(b) >= 0 THEN IntVal(n)
             ELSE IF Num(b) >= 0 THEN FloatVal(n, d)
             ELSE FloatVal(d, n)

\* operator.<name>(a, b); an argument that is no number of the model gives
\* no number of the model.
operator_call(name, a, b) ==
    IF ~IsNumber(a) \/ ~IsNumber(b) THEN Beyond
    ELSE CASE name = "add" -> operator_add(a, b)
           [] name = "sub" -> operator_sub(a, b)
           [] name = "mul" -> operator_mul(a, b)
           [] name = "floordiv" -> operator_floordiv(a, b)
           [] name = "truediv" -> operator_truediv(a, b)
           [] name = "mod" -> operator_mod(a, b)
           [] name = "pow" -> operator_pow(a, b)

\* _flip(callback)(first, second)
flip_call(name, first, second) == operator_call(name, second, first)

(***************************************************************************)
(* _MathExpression.  A recorded operation is partial(operation, other),    *)
(* kept as <<flipped, name, other>>: operation is operator.<name>, or      *)
(* _flip(operator.<name>) when flipped.  An object of the heap `maths` is  *)
(* its list _operations.                                                   *)
(***************************************************************************)
MathRef(i) == <<"math", i>>

\* partial(operation, other)(number)
partial_call(step, number) ==
    IF step[1] THEN flip_call(step[2], step[3], number)
    ELSE operator_call(step[2], step[3], number)

ArithmeticMethods ==
    {"__add__", "__sub__", "__mul__", "__floordiv__", "__truediv__", "__mod__",
     "__pow__", "__radd__", "__rsub__", "__rmul__", "__rfloordiv__",
     "__rtruediv__", "__rmod__", "__rpow__"}

\* Every method records the plain operator, the operand first.
MathExpression_operation_never_flipped(method) ==
    CASE method \in {"__add__", "__radd__"} -> <<FALSE, "add">>
      [] method \in {"__sub__", "__rsub__"} -> <<FALSE, "sub">>
      [] method \in {"__mul__", "__rmul__"} -> <<FALSE, "mul">>
      [] method \in {"__floordiv__", "__rfloordiv__"} -> <<FALSE, "floordiv">>
      [] method \in {"__truediv__", "__rtruediv__"} -> <<FALSE, "truediv">>
      [] method \in {"__mod__", "__rmod__"} -> <<FALSE, "mod">>
      [] method \in {"__pow__", "__rpow__"} -> <<FALSE, "pow">>

\* The operation each operator method passes to _add_operation.
MathExpression_operation(method) ==
    CASE method = "__add__" -> <<TRUE, "add">>
      [] method = "__sub__" -> <<TRUE, "sub">>
      [] method = "__mul__" -> <<TRUE, "mul">>
      [] method = "__floordiv__" -> <<TRUE, "floordiv">>
      [] method = "__truediv__" -> <<TRUE, "truediv">>
      [] method = "__mod__" -> <<TRUE, "mod">>
      [] method = "__pow__" -> <<TRUE, "pow">>
      [] method = "__radd__" -> <<FALSE, "add">>
      [] method = "__rsub__" -> <<FALSE, "sub">>
      [] method = "__rmul__" -> <<FALSE, "mul">>
      [] method = "__rfloordiv__" -> <<FALSE, "floordiv">>
      [] method = "__rtruediv__" -> <<FALSE, "truediv">>
      [] method = "__rmod__" -> <<FALSE, "mod">>
      [] method = "__rpow__" -> <<FALSE, "pow">>

MathExpression_init == <<>>

\* self._operations.append(partial(operation, other))
MathExpression_add_operation(operations, operation, other) ==
    Append(operations, <<operation[1], operation[2], other>>)

\* reduce(lambda partial_result, operation: operation(partial_result),
\*        operations, initial); an exception ends it.
RECURSIVE reduce(_, _)
reduce(operations, partial_result) ==
    IF operations = <<>> \/ IsRaise(partial_result) THEN partial_result
    ELSE reduce(Tail(operations), partial_call(Head(operations), partial_result))

\* A call that folds the operations from the last recorded to the first.
RECURSIVE reduce_backwards(_, _)
reduce_backwards(operations, partial_result) ==
    IF operations = <<>> \/ IsRaise(partial_result) THEN partial_result
    ELSE reduce_backwards(SubSeq(operations, 1, Len(operations) - 1),
                          partial_call(operations[Len(operations)], partial_result))

MathExpression_call_backwards(operations, number) ==
    IF operations = <<>> THEN Raise("ValueError")
    ELSE reduce_backwards(operations, number)

\* first_operation, *rest_of_the_operations = self._operations fails on an
\* empty list.
MathExpression_call(operations, number) ==
    IF operations = <<>> THEN Raise("ValueError")
    ELSE reduce(Tail(operations), partial_call(Head(operations), number))

\* The number of operations recorded in all the objects of heap m.
RECURSIVE TotalSteps(_)
TotalSteps(m) == IF m = <<>> THEN 0 ELSE Len(Head(m)) + TotalSteps(Tail(m))

(***************************************************************************)
(* The state: the heap of chains, the heap of _MathExpression objects, and *)
(* the last operation performed: the method, the object it was called on,  *)
(* its argument, what it returned (or raised) and the number of operations *)
(* of chains it invoked.                                                   *)
(***************************************************************************)
Done(op, self, arg, ret, invoked) ==
    [op |-> op, self |-> self, arg |-> arg, ret |-> ret, invoked |-> invoked]

Init ==
    /\ chains = <<>>
    /\ maths = <<>>
    /\ last = Done("import", None, None, ChainRef(0), 0)

\* An & that stores the new operation in the expression itself.
Expression_and_in_place(e, other) ==
    /\ chains' = IF e = 0 THEN Append(chains, Chain_init(e, <<"_AndSomething", other>>))
                 ELSE [chains EXCEPT ![e] = Chain_init(e, <<"_AndSomething", other>>)]
    /\ last' = Done("__and__", ChainRef(e), other,
                    ChainRef(IF e = 0 THEN Len(chains) + 1 ELSE e), 0)
    /\ UNCHANGED maths

\* e & other
Expression_and(e, other) ==
    /\ chains' = Append(chains, Chain_init(e, <<"_AndSomething", other>>))
    /\ last' = Done("__and__", ChainRef(e), other, ChainRef(Len(chains) + 1), 0)
    /\ UNCHANGED maths

\* A reflected & that builds the operation of the left form.
Expression_rand_as_and(e, other) ==
    /\ chains' = Append(chains, Chain_init(e, <<"_AndSomething", other>>))
    /\ last' = Done("__rand__", ChainRef(e), other, ChainRef(Len(chains) + 1), 0)
    /\ UNCHANGED maths

\* other & e
Expression_rand(e, other) ==
    /\ chains' = Append(chains, Chain_init(e, <<"_SomethingAnd", other>>))
    /\ last' = Done("__rand__", ChainRef(e), other, ChainRef(Len(chains) + 1), 0)
    /\ UNCHANGED maths

\* e | other
Expression_or(e, other) ==
    /\ chains' = Append(chains, Chain_init(e, <<"_OrSomething", other>>))
    /\ last' = Done("__or__", ChainRef(e), other, ChainRef(Len(chains) + 1), 0)
    /\ UNCHANGED maths

\* other | e
Expression_ror(e, other) ==
    /\ chains' = Append(chains, Chain_init(e, <<"_SomethingOr", other>>))
    /\ last' = Done("__ror__", ChainRef(e), other, ChainRef(Len(chains) + 1), 0)
    /\ UNCHANGED maths

\* e(arg)
Call(e, arg) ==
    /\ last' = Done("__call__", ChainRef(e), arg, Expression_call(chains, e, arg),
                    Expression_invoked(chains, e, arg))
    /\ UNCHANGED <<chains, maths>>

\* repr(e)
Repr(e) ==
    /\ last' = Done("__repr__", ChainRef(e), None,
                    StrVal(Expression_repr(chains, e)), 0)
    /\ UNCHANGED <<chains, maths>>

(***************************************************************************)
(* Chains over int operands, called with ints.  The host evaluates         *)
(* `other & e` as e.__rand__(other) once other's own __and__ has declined  *)
(* the expression; `e & other` is e.__and__(other) at once.                *)
(***************************************************************************)
AndOperands == {IntVal(6), IntVal(9)}
OrOperands == {IntVal(9)}
IntInputs == {IntVal(3), IntVal(7)}

NextChain ==
    \/ \E e \in Expressions(chains), other \in AndOperands :
          Len(chains) < MaxChains /\ Expression_and(e, other)
    \/ \E e \in Expressions(chains), other \in AndOperands :
          /\ Len(chains) < MaxChains
          /\ dunder_and(other, ChainRef(e)) = NotImplemented
          /\ Expression_rand(e, other)
    \/ \E e \in Expressions(chains), other \in OrOperands :
          Len(chains) < MaxChains /\ Expression_or(e, other)
    \/ \E e \in Expressions(chains), other \in OrOperands :
          /\ Len(chains) < MaxChains
          /\ dunder_or(other, ChainRef(e)) = NotImplemented
          /\ Expression_ror(e, other)
    \/ \E e \in Expressions(chains), arg \in IntInputs : Call(e, arg)
    \/ \E e \in Expressions(chains) : Repr(e)

SpecChain == Init /\ [][NextChain]_vars

(***************************************************************************)
(* Chains over the operand classes of the tests, called with ints, strs    *)
(* and objects.                                                            *)
(***************************************************************************)
foo == StrVal(<<"f", "o", "o">>)

ClassOperands ==
    {ObjVal("_ImplementsAnd"), ObjVal("_ImplementsRAnd"),
     ObjVal("_ImplementsOr"), ObjVal("_ImplementsROr")}
ClassInputs == {IntVal(99), foo, StrVal(<<>>), ObjVal("_ImplementsAnd")}

NextDispatch ==
    \/ \E e \in Expressions(chains), other \in ClassOperands :
          Len(chains) < MaxClassChains /\ Expression_and(e, other)
    \/ \E e \in Expressions(chains), other \in ClassOperands :
          /\ Len(chains) < MaxClassChains
          /\ dunder_and(other, ChainRef(e)) = NotImplemented
          /\ Expression_rand(e, other)
    \/ \E e \in Expressions(chains), other \in ClassOperands :
          Len(chains) < MaxClassChains /\ Expression_or(e, other)
    \/ \E e \in Expressions(chains), other \in ClassOperands :
          /\ Len(chains) < MaxClassChains
          /\ dunder_or(other, ChainRef(e)) = NotImplemented
          /\ Expression_ror(e, other)
    \/ \E e \in Expressions(chains), arg \in ClassInputs : Call(e, arg)
    \/ \E e \in Expressions(chains) : Repr(e)

SpecDispatch == Init /\ [][NextDispatch]_vars

(***************************************************************************)
(* The arithmetic operators: on the placeholder they make a new            *)
(* _MathExpression and apply the operator to it; on a _MathExpression they *)
(* record the operation in it and return it.                               *)
(***************************************************************************)
\* An operator on the placeholder that hands out the fresh _MathExpression()
\* without applying the operator to it.
Callable_arithmetic_no_operation(method, other) ==
    /\ maths' = Append(maths, MathExpression_init)
    /\ last' = Done(method, ChainRef(0), other, MathRef(Len(maths) + 1), 0)
    /\ UNCHANGED chains

\* _ OP other, other OP _
Callable_arithmetic(method, other) ==
    /\ maths' = Append(maths,
                       MathExpression_add_operation(
                           MathExpression_init, MathExpression_operation(method), other))
    /\ last' = Done(method, ChainRef(0), other, MathRef(Len(maths) + 1), 0)
    /\ UNCHANGED chains

\* An operator that returns a copy with the operation added and leaves the
\* expression alone.
MathExpression_operator_copying(i, method, other) ==
    /\ maths' = Append(maths,
                       MathExpression_add_operation(
                           maths[i], MathExpression_operation(method), other))
    /\ last' = Done(method, MathRef(i), other, MathRef(Len(maths) + 1), 0)
    /\ UNCHANGED chains

\* expression OP other, other OP expression
MathExpression_operator(i, method, other) ==
    /\ maths' = [maths EXCEPT ![i] =
                    MathExpression_add_operation(
                        maths[i], MathExpression_operation(method), other)]
    /\ last' = Done(method, MathRef(i), other, MathRef(i), 0)
    /\ UNCHANGED chains

\* expression(number)
MathCall(i, number) ==
    /\ MathExpression_call(maths[i], number) # Beyond
    /\ last' = Done("__call__", MathRef(i), number,
                    MathExpression_call(maths[i], number), 0)
    /\ UNCHANGED <<chains, maths>>

MathOperands == {IntVal(2), IntVal(3)}
MathInputs == {IntVal(3), IntVal(5)}

NextMath ==
    \/ \E method \in ArithmeticMethods, other \in MathOperands :
          /\ Len(maths) < MaxMaths
          /\ TotalSteps(maths) < MaxSteps
          /\ Callable_arithmetic(method, other)
    \/ \E i \in 1..Len(maths), method \in ArithmeticMethods, other \in MathOperands :
          /\ TotalSteps(maths) < MaxSteps
          /\ MathExpression_operator(i, method, other)
    \/ \E i \in 1..Len(maths), number \in MathInputs : MathCall(i, number)

SpecMath == Init /\ [][NextMath]_vars

(***************************************************************************)
(* The rest of the operator surface of the placeholder.  _fmap(callback)   *)
(* makes a method that returns the function                                *)
(* `lambda first: callback(first, second)`, kept as                        *)
(* <<"function", <<callback, second>>>>; _unary_fmap(callback) makes a     *)
(* method that returns the callback itself, a builtin of the operator      *)
(* module; attribute and item access return operator.attrgetter(key) and   *)
(* operator.itemgetter(key).  A callback is <<flipped, name>>.             *)
(***************************************************************************)
FmapMethods ==
    {"__xor__", "__divmod__", "__lshift__", "__rshift__", "__lt__", "__le__",
     "__gt__", "__ge__", "__eq__", "__ne__", "__rdivmod__", "__rlshift__",
     "__rrshift__", "__rxor__"}

UnaryMethods == {"__neg__", "__pos__", "__invert__"}

Callable_callback(method) ==
    CASE method = "__xor__" -> <<FALSE, "xor">>
      [] method = "__divmod__" -> <<FALSE, "divmod">>
      [] method = "__lshift__" -> <<FALSE, "lshift">>
      [] method = "__rshift__" -> <<FALSE, "rshift">>
      [] method = "__lt__" -> <<FALSE, "lt">>
      [] method = "__le__" -> <<FALSE, "le">>
      [] method = "__gt__" -> <<FALSE, "gt">>
      [] method = "__ge__" -> <<FALSE, "ge">>
      [] method = "__eq__" -> <<FALSE, "eq">>
      [] method = "__ne__" -> <<FALSE, "ne">>
      [] method = "__rdivmod__" -> <<TRUE, "divmod">>
      [] method = "__rlshift__" -> <<TRUE, "lshift">>
      [] method = "__rrshift__" -> <<TRUE, "rshift">>
      [] method = "__rxor__" -> <<TRUE, "xor">>
      [] method = "__neg__" -> <<FALSE, "neg">>
      [] method = "__pos__" -> <<FALSE, "pos">>
      [] method = "__invert__" -> <<FALSE, "invert">>

\* A decorator whose method forgets to return the function.
fmap_no_return(callback, second) == None

\* _fmap(callback)(self, second)
fmap(callback, second) == <<"function", <<callback, second>>>>

\* _unary_fmap(callback)(self)
unary_fmap(callback) == <<"builtin_function_or_method", callback[2]>>

\* _ OP second, second OP _ for ^, divmod, <<, >> and the comparisons
Callable_fmap(method, second) ==
    /\ last' = Done(method, ChainRef(0), second,
                    fmap(Callable_callback(method), second), 0)
    /\ UNCHANGED <<chains, maths>>

\* -_, +_, ~_
Callable_unary(method) ==
    /\ last' = Done(method, ChainRef(0), None,
                    unary_fmap(Callable_callback(method)), 0)
    /\ UNCHANGED <<chains, maths>>

\* _.key
Callable_getattr(key) ==
    /\ last' = Done("__getattr__", ChainRef(0), StrVal(key), <<"attrgetter", key>>, 0)
    /\ UNCHANGED <<chains, maths>>

\* _[key]
Callable_getitem(key) ==
    /\ last' = Done("__getitem__", ChainRef(0), StrVal(key), <<"itemgetter", key>>, 0)
    /\ UNCHANGED <<chains, maths>>

Keys == {<<"c", "o", "u", "n", "t">>, <<"i", "d">>}

\* Every operator of the placeholder, with at most MaxObjects expressions
\* made.
NextSurface ==
    \/ \E other \in AndOperands :
          Len(chains) + Len(maths) < MaxObjects /\ Expression_and(0, other)
    \/ \E other \in AndOperands :
          /\ Len(chains) + Len(maths) < MaxObjects
          /\ dunder_and(other, ChainRef(0)) = NotImplemented
          /\ Expression_rand(0, other)
    \/ \E other \in OrOperands :
          Len(chains) + Len(maths) < MaxObjects /\ Expression_or(0, other)
    \/ \E other \in OrOperands :
          /\ Len(chains) + Len(maths) < MaxObjects
          /\ dunder_or(other, ChainRef(0)) = NotImplemented
          /\ Expression_ror(0, other)
    \/ \E method \in ArithmeticMethods, other \in MathOperands :
          Len(chains) + Len(maths) < MaxObjects /\ Callable_arithmetic(method, other)
    \/ \E method \in FmapMethods, second \in MathOperands : Callable_fmap(method, second)
    \/ \E method \in UnaryMethods : Callable_unary(method)
    \/ \E key \in Keys : Callable_getattr(key)
    \/ \E key \in Keys : Callable_getitem(key)

SpecSurface == Init /\ [][NextSurface]_vars

(***************************************************************************)
(* Helpers of the properties.                                              *)
(***************************************************************************)
\* The operations of expression e in the order they were applied to the
\* placeholder: the first applied first.
RECURSIVE Operations(_, _)
Operations(h, e) ==
    IF e = 0 THEN <<>>
    ELSE Append(Operations(h, h[e].previous), h[e].operation)

\* One operation on a running value; nothing runs after an exception.
Step(operation, running) ==
    IF IsRaise(running) THEN running
    ELSE CASE operation[1] = "_SomethingAnd" -> PyAnd(operation[2], running)
           [] operation[1] = "_AndSomething" -> PyAnd(running, operation[2])
           [] operation[1] = "_SomethingOr" -> PyOr(operation[2], running)
           [] operation[1] = "_OrSomething" -> PyOr(running, operation[2])

\* on(...o2(o1(x))...)
RECURSIVE Replay(_, _)
Replay(ops, x) ==
    IF ops = <<>> THEN x ELSE Replay(Tail(ops), Step(Head(ops), x))

Chars_9_or_hole_and_6_and_6 ==
    <<"(", "9", " ", "|", " ", "_", ")", " ", "&", " ", "6", " ", "&", " ", "6">>
Chars_9_or_hole_and_6_and_9 ==
    <<"9", " ", "|", " ", "_", " ", "&", " ", "6", " ", "&", " ", "9">>

Ops_9_or_hole_and_6_and_6 ==
    <<(<<"_SomethingOr", IntVal(9)>>), (<<"_AndSomething", IntVal(6)>>),
      (<<"_AndSomething", IntVal(6)>>)>>
Ops_hole_and_6_and_9_ror_9 ==
    <<(<<"_AndSomething", IntVal(6)>>), (<<"_AndSomething", IntVal(9)>>),
      (<<"_SomethingOr", IntVal(9)>>)>>

(***************************************************************************)
(* C1: calling the placeholder with one argument returns that argument     *)
(* unchanged, and the call changes no expression.                          *)
(***************************************************************************)
C1_PlaceholderIsIdentity ==
    [][(last'.op = "__call__" /\ last'.self = ChainRef(0))
          => /\ last'.ret = last'.arg
             /\ chains' = chains
             /\ maths' = maths]_vars

C1_Witness ==
    /\ last.op = "__call__"
    /\ last.self = ChainRef(0)
    /\ last.arg = foo
    /\ last.ret = foo
    /\ Len(chains) > 0

(***************************************************************************)
(* C2: a call of a chain built by the operations o1, ..., on, in the order *)
(* they were applied, with input x returns on(...o2(o1(x))...); so         *)
(* ((9 | _) & 6 & 6)(x) is ((9 | x) & 6) & 6.                              *)
(***************************************************************************)
C2_ChainReplaysRootToTip ==
    last.op = "__call__" =>
        /\ last.ret = Replay(Operations(chains, last.self[2]), last.arg)
        /\ Operations(chains, last.self[2]) = Ops_9_or_hole_and_6_and_6 =>
              last.ret = IntVal(BitAnd(BitAnd(BitOr(9, last.arg[2]), 6), 6))

C2_Witness ==
    /\ last.op = "__call__"
    /\ Operations(chains, last.self[2]) = Ops_9_or_hole_and_6_and_6
    /\ last.arg = IntVal(3)
    /\ last.ret = IntVal(2)

(***************************************************************************)
(* C3: in the string of a chain, the string of the previous expression is  *)
(* in parentheses if and only if the precedence of the previous expression *)
(* (0 for the placeholder, 8 for &, 10 for |) is greater than that of the  *)
(* trailing operation; (9 | _) & 6 & 6 gives "(9 | _) & 6 & 6" and         *)
(* 9 | (_ & 6 & 9) gives "9 | _ & 6 & 9".                                  *)
(***************************************************************************)
RankOfVariant(variant) ==
    IF variant \in {"_SomethingAnd", "_AndSomething"} THEN 8 ELSE 10

RankOf(h, e) == IF e = 0 THEN 0 ELSE RankOfVariant(h[e].operation[1])

SymbolOf(variant) ==
    IF variant \in {"_SomethingAnd", "_AndSomething"} THEN "&" ELSE "|"

C3_ParenthesesIffLooserPrevious ==
    (last.op = "__repr__" /\ last.self[2] # 0) =>
        LET e == last.self[2]
            previous == chains[e].previous
            variant == chains[e].operation[1]
            operand == repr(chains[e].operation[2])
            inner == Expression_repr(chains, previous)
            shown == IF RankOf(chains, previous) > RankOfVariant(variant)
                     THEN <<"(">> \o inner \o <<")">>
                     ELSE inner
            symbol == <<" ", SymbolOf(variant), " ">>
        IN  /\ last.ret = StrVal(IF variant \in {"_SomethingAnd", "_SomethingOr"}
                                 THEN operand \o symbol \o shown
                                 ELSE shown \o symbol \o operand)
            /\ Operations(chains, e) = Ops_9_or_hole_and_6_and_6 =>
                  last.ret = StrVal(Chars_9_or_hole_and_6_and_6)
            /\ Operations(chains, e) = Ops_hole_and_6_and_9_ror_9 =>
                  last.ret = StrVal(Chars_9_or_hole_and_6_and_9)

C3_Witness ==
    /\ last.op = "__repr__"
    /\ Operations(chains, last.self[2]) = Ops_9_or_hole_and_6_and_6
    /\ last.ret = StrVal(Chars_9_or_hole_and_6_and_6)

(***************************************************************************)
(* C4: dual dispatch.  For an operand L that defines the left form of &    *)
(* (or |) and an operand R that defines the reflected form, and every      *)
(* input x: (L & _)(x) is the host's L & x, the result of L's left form    *)
(* whenever that form accepts x, and (_ & R)(x) is the host's x & R, the   *)
(* result of R's reflected form whenever x's own left form declines and    *)
(* R's reflected form accepts x; likewise for |.  The operand given at     *)
(* construction is the one the operation holds.                            *)
(***************************************************************************)
DefinesLeft(operand) == TypeOf(operand) \in {"_ImplementsAnd", "_ImplementsOr", "int"}
DefinesReflected(operand) ==
    TypeOf(operand) \in {"_ImplementsRAnd", "_ImplementsROr", "int"}

VariantOfMethod(method) ==
    CASE method = "__and__" -> "_AndSomething"
      [] method = "__rand__" -> "_SomethingAnd"
      [] method = "__or__" -> "_OrSomething"
      [] method = "__ror__" -> "_SomethingOr"

Combinators == {"__and__", "__rand__", "__or__", "__ror__"}

C4_DualDispatch ==
    /\ last.op \in Combinators =>
          chains[last.ret[2]].operation = <<VariantOfMethod(last.op), last.arg>>
    /\ (last.op = "__call__" /\ Len(Operations(chains, last.self[2])) = 1) =>
          LET variant == chains[last.self[2]].operation[1]
              operand == chains[last.self[2]].operation[2]
              x == last.arg
          IN  /\ (variant = "_SomethingAnd" /\ DefinesLeft(operand)) =>
                    /\ last.ret = PyAnd(operand, x)
                    /\ dunder_and(operand, x) # NotImplemented =>
                          last.ret = dunder_and(operand, x)
              /\ (variant = "_AndSomething" /\ DefinesReflected(operand)) =>
                    /\ last.ret = PyAnd(x, operand)
                    /\ (/\ dunder_and(x, operand) = NotImplemented
                        /\ dunder_rand(operand, x) # NotImplemented) =>
                          last.ret = dunder_rand(operand, x)
              /\ (variant = "_SomethingOr" /\ DefinesLeft(operand)) =>
                    /\ last.ret = PyOr(operand, x)
                    /\ dunder_or(operand, x) # NotImplemented =>
                          last.ret = dunder_or(operand, x)
              /\ (variant = "_OrSomething" /\ DefinesReflected(operand)) =>
                    /\ last.ret = PyOr(x, operand)
                    /\ (/\ dunder_or(x, operand) = NotImplemented
                        /\ dunder_ror(operand, x) # NotImplemented) =>
                          last.ret = dunder_ror(operand, x)
              \* (_ImplementsAnd() & _)('foo') == 3
              /\ (variant = "_SomethingAnd" /\ operand = ObjVal("_ImplementsAnd")
                    /\ x = foo) => last.ret = IntVal(3)
              \* (_ & _ImplementsRAnd())(99) == '99'
              /\ (variant = "_AndSomething" /\ operand = ObjVal("_ImplementsRAnd")
                    /\ x = IntVal(99)) => last.ret = StrVal(<<"9", "9">>)
              \* (_ImplementsOr() | _)('foo') == 3
              /\ (variant = "_SomethingOr" /\ operand = ObjVal("_ImplementsOr")
                    /\ x = foo) => last.ret = IntVal(3)
              \* (_ | _ImplementsROr())(99) == '99'
              /\ (variant = "_OrSomething" /\ operand = ObjVal("_ImplementsROr")
                    /\ x = IntVal(99)) => last.ret = StrVal(<<"9", "9">>)

C4_Witness ==
    /\ last.op = "__call__"
    /\ Operations(chains, last.self[2]) = <<(<<"_SomethingAnd", ObjVal("_ImplementsAnd")>>)>>
    /\ last.arg = foo
    /\ last.ret = IntVal(3)
    /\ \E e \in 1..Len(chains) :
          chains[e] = Chain_init(0, <<"_AndSomething", ObjVal("_ImplementsRAnd")>>)

(***************************************************************************)
(* C6: the string of a chain, parsed again under the host's grammar (&     *)
(* binds tighter than |, both associate to the left, parentheses group),   *)
(* denotes an expression equivalent to the chain: on every input it gives  *)
(* what the chain gives.                                                   *)
(***************************************************************************)
DigitChars == {"0", "1", "2", "3", "4", "5", "6", "7", "8", "9"}
NameChars == {"_", "a", "b", "c", "d", "e", "f", "g", "h", "i", "j", "k", "l", "m",
              "n", "o", "p", "q", "r", "s", "t", "u", "v", "w", "x", "y", "z"}

\* The length of the longest prefix of cs whose characters are all in set.
RECURSIVE RunLength(_, _)
RunLength(cs, set) ==
    IF cs = <<>> \/ Head(cs) \notin set THEN 0 ELSE 1 + RunLength(Tail(cs), set)

DigitValue(c) == CHOOSE d \in 0..9 : Digits[d + 1] = c

RECURSIVE NumberOf(_)
NumberOf(cs) ==
    IF cs = <<>> THEN 0
    ELSE 10 * NumberOf(SubSeq(cs, 1, Len(cs) - 1)) + DigitValue(cs[Len(cs)])

\* Tokens: <<"sym", c>>, <<"num", n>>, <<"name", characters>>.
RECURSIVE Lex(_, _)
Lex(cs, tokens) ==
    IF cs = <<>> THEN tokens
    ELSE IF Head(cs) = " " THEN Lex(Tail(cs), tokens)
    ELSE IF Head(cs) \in {"(", ")", "&", "|"}
         THEN Lex(Tail(cs), Append(tokens, <<"sym", Head(cs)>>))
    ELSE IF Head(cs) \in DigitChars
         THEN LET n == RunLength(cs, DigitChars)
              IN  Lex(SubSeq(cs, n + 1, Len(cs)),
                      Append(tokens, <<"num", NumberOf(SubSeq(cs, 1, n))>>))
    ELSE LET n == RunLength(cs, NameChars)
         IN  Lex(SubSeq(cs, n + 1, Len(cs)),
                 Append(tokens, <<"name", SubSeq(cs, 1, n)>>))

\* The names of the operands of tests/test_callable/test_and.py.
NameValue(name) ==
    IF name = <<"h", "e", "l", "l", "o">> THEN ObjVal("_ImplementsAnd")
    ELSE ObjVal("_ImplementsRAnd")

\* Trees: <<"hole">>, <<"lit", value>>, <<"bin", symbol, left, right>>.
\* Each parser returns <<tree, remaining tokens>>.
RECURSIVE ParseOr(_)
RECURSIVE ParseAnd(_)
RECURSIVE ParseAndTail(_, _)
RECURSIVE ParseOrTail(_, _)

ParseAtom(tokens) ==
    LET t == Head(tokens)
    IN  IF t[1] = "sym"
        THEN LET inner == ParseOr(Tail(tokens)) IN <<inner[1], Tail(inner[2])>>
        ELSE IF t[1] = "num" THEN <<(<<"lit", IntVal(t[2])>>), Tail(tokens)>>
        ELSE IF t[2] = <<"_">> THEN <<(<<"hole">>), Tail(tokens)>>
        ELSE <<(<<"lit", NameValue(t[2])>>), Tail(tokens)>>

ParseAndTail(left, tokens) ==
    IF tokens # <<>> /\ Head(tokens) = <<"sym", "&">>
    THEN LET right == ParseAtom(Tail(tokens))
         IN  ParseAndTail(<<"bin", "&", left, right[1]>>, right[2])
    ELSE <<left, tokens>>

ParseAnd(tokens) ==
    LET first == ParseAtom(tokens) IN ParseAndTail(first[1], first[2])

ParseOrTail(left, tokens) ==
    IF tokens # <<>> /\ Head(tokens) = <<"sym", "|">>
    THEN LET right == ParseAnd(Tail(tokens))
         IN  ParseOrTail(<<"bin", "|", left, right[1]>>, right[2])
    ELSE <<left, tokens>>

ParseOr(tokens) ==
    LET first == ParseAnd(tokens) IN ParseOrTail(first[1], first[2])

Parse(cs) == ParseOr(Lex(cs, <<>>))[1]

\* The host's evaluation of a parsed expression with the hole bound to x.
RECURSIVE Eval(_, _)
Eval(tree, x) ==
    IF tree[1] = "hole" THEN x
    ELSE IF tree[1] = "lit" THEN tree[2]
    ELSE LET l == Eval(tree[3], x)
             r == Eval(tree[4], x)
         IN  IF IsRaise(l) THEN l
             ELSE IF IsRaise(r) THEN r
             ELSE IF tree[2] = "&" THEN PyAnd(l, r) ELSE PyOr(l, r)

\* The operands whose repr names them in test_and.py.
Named(h, e) ==
    \A i \in 1..Len(Operations(h, e)) :
        TypeOf(Operations(h, e)[i][2]) \in {"_ImplementsAnd", "_ImplementsRAnd", "int"}

C6_ReprParsesToEquivalent ==
    (last.op = "__repr__" /\ Named(chains, last.self[2])) =>
        \A x \in ClassInputs :
            Eval(Parse(last.ret[2]), x) = Expression_call(chains, last.self[2], x)

(***************************************************************************)
(* C7: applying & or | to an expression and any operand never fails and    *)
(* invokes no operation; when an operation of the chain cannot handle the  *)
(* value it is replayed on, the call of the chain raises TypeError, and    *)
(* no later operation of the chain runs.                                   *)
(***************************************************************************)
\* The value the k-th operation of ops receives when the chain is called
\* with x.
Running(ops, x, k) == Replay(SubSeq(ops, 1, k - 1), x)

\* Neither operand's method handles the pair.
Declines(operation, v) ==
    CASE operation[1] = "_SomethingAnd" ->
            /\ dunder_and(operation[2], v) = NotImplemented
            /\ (TypeOf(operation[2]) = TypeOf(v) \/ dunder_rand(v, operation[2]) = NotImplemented)
      [] operation[1] = "_AndSomething" ->
            /\ dunder_and(v, operation[2]) = NotImplemented
            /\ (TypeOf(operation[2]) = TypeOf(v) \/ dunder_rand(operation[2], v) = NotImplemented)
      [] operation[1] = "_SomethingOr" ->
            /\ dunder_or(operation[2], v) = NotImplemented
            /\ (TypeOf(operation[2]) = TypeOf(v) \/ dunder_ror(v, operation[2]) = NotImplemented)
      [] operation[1] = "_OrSomething" ->
            /\ dunder_or(v, operation[2]) = NotImplemented
            /\ (TypeOf(operation[2]) = TypeOf(v) \/ dunder_ror(operation[2], v) = NotImplemented)

\* The k-th operation is the first that cannot handle what it receives.
FailsAt(ops, x, k) ==
    /\ ~IsRaise(Running(ops, x, k))
    /\ Declines(ops[k], Running(ops, x, k))

C7_FailureOnlyAtCallTime ==
    /\ last.op \in Combinators =>
          /\ last.ret = ChainRef(Len(chains))
          /\ last.invoked = 0
    /\ last.op = "__call__" =>
          LET ops == Operations(chains, last.self[2])
          IN  /\ \A k \in 1..Len(ops) :
                    FailsAt(ops, last.arg, k) =>
                        /\ last.ret = Raise("TypeError")
                        /\ last.invoked = k
              /\ (\A k \in 1..Len(ops) : ~FailsAt(ops, last.arg, k)) =>
                    /\ ~IsRaise(last.ret)
                    /\ last.invoked = Len(ops)

\* (_ & howdy & howdy)(99): the first & gives '99', the second cannot
\* handle a str.
C7_Witness ==
    /\ last.op = "__call__"
    /\ Operations(chains, last.self[2]) =
          <<(<<"_AndSomething", ObjVal("_ImplementsRAnd")>>),
            (<<"_AndSomething", ObjVal("_ImplementsRAnd")>>)>>
    /\ last.arg = IntVal(99)
    /\ last.ret = Raise("TypeError")
    /\ last.invoked = 2

(***************************************************************************)
(* C9: applying & or | to an expression e returns a new chain whose        *)
(* previous is e, and changes no existing expression: the fields, the      *)
(* precedence, the string and the result on every input of each stay what  *)
(* they were.                                                              *)
(***************************************************************************)
Untouched(e) ==
    /\ e \in Expressions(chains')
    /\ e > 0 => /\ chains'[e].previous = chains[e].previous
                /\ chains'[e].operation = chains[e].operation
    /\ Expression_precedence(chains', e) = Expression_precedence(chains, e)
    /\ Expression_repr(chains', e) = Expression_repr(chains, e)
    /\ \A x \in IntInputs :
          Expression_call(chains', e, x) = Expression_call(chains, e, x)

C9_CombinatorsNeverMutate ==
    [][chains' # chains =>
             /\ \A e \in Expressions(chains) : Untouched(e)
             /\ last'.op \in Combinators
             /\ Len(chains') = Len(chains) + 1
             /\ last'.ret = ChainRef(Len(chains'))
             /\ last'.self[2] \in Expressions(chains)
             /\ chains'[Len(chains')].previous = last'.self[2]]_vars

\* Two chains built from the same chain, which is still what it was.
C9_Witness ==
    /\ Len(chains) = 3
    /\ chains[1] = Chain_init(0, <<"_SomethingOr", IntVal(9)>>)
    /\ chains[2].previous = 1
    /\ chains[3].previous = 1
    /\ chains[2].operation # chains[3].operation

(***************************************************************************)
(* C5: a call of a _MathExpression with x runs the first recorded          *)
(* operation on x and then the remaining ones, in the order they were      *)
(* recorded, each on the result of the one before; the operation recorded  *)
(* by `expression OP k` computes running OP k and the one recorded by      *)
(* `k OP expression` computes k OP running, for + - * // / % **.  So       *)
(* (2 / (_ % 3))(5) is 2 / (5 % 3).                                        *)
(***************************************************************************)
Numbers ==
    {IntVal(n) : n \in -3..5} \cup {<<"float", <<1, 2>>>>, <<"float", <<-5, 3>>>>}

NameOfMethod(method) ==
    CASE method \in {"__add__", "__radd__"} -> "add"
      [] method \in {"__sub__", "__rsub__"} -> "sub"
      [] method \in {"__mul__", "__rmul__"} -> "mul"
      [] method \in {"__floordiv__", "__rfloordiv__"} -> "floordiv"
      [] method \in {"__truediv__", "__rtruediv__"} -> "truediv"
      [] method \in {"__mod__", "__rmod__"} -> "mod"
      [] method \in {"__pow__", "__rpow__"} -> "pow"

Reflected(method) ==
    method \in {"__radd__", "__rsub__", "__rmul__", "__rfloordiv__",
                "__rtruediv__", "__rmod__", "__rpow__"}

\* The value after the first k recorded operations.
RECURSIVE RunningNumber(_, _, _)
RunningNumber(operations, x, k) ==
    IF k = 0 THEN x
    ELSE LET before == RunningNumber(operations, x, k - 1)
         IN  IF IsRaise(before) THEN before
             ELSE partial_call(operations[k], before)

Steps_2_truediv_hole_mod_3 == <<(<<TRUE, "mod", IntVal(3)>>), (<<FALSE, "truediv", IntVal(2)>>)>>

C5_MathExpressionFoldsInOrder ==
    /\ last.op \in ArithmeticMethods =>
          LET operations == maths[last.ret[2]]
              recorded == operations[Len(operations)]
          IN  \A running \in Numbers :
                  partial_call(recorded, running) =
                      IF Reflected(last.op)
                      THEN operator_call(NameOfMethod(last.op), last.arg, running)
                      ELSE operator_call(NameOfMethod(last.op), running, last.arg)
    /\ (last.op = "__call__" /\ last.self[1] = "math") =>
          LET operations == maths[last.self[2]]
          IN  /\ last.ret = RunningNumber(operations, last.arg, Len(operations))
              /\ (operations = Steps_2_truediv_hole_mod_3 /\ last.arg = IntVal(5)) =>
                    last.ret = operator_truediv(IntVal(2), operator_mod(IntVal(5), IntVal(3)))

C5_Witness ==
    /\ last.op = "__call__"
    /\ last.self[1] = "math"
    /\ maths[last.self[2]] = Steps_2_truediv_hole_mod_3
    /\ last.arg = IntVal(5)
    /\ last.ret = <<"float", <<1, 1>>>>

(***************************************************************************)
(* C8: every operator of the placeholder returns a chain, a                *)
(* _MathExpression or an attribute or item getter.                         *)
(***************************************************************************)
C8_OperatorsYieldExpressionsOrGetters ==
    (last.op # "import" /\ last.self = ChainRef(0)) =>
        last.ret[1] \in {"chain", "math", "attrgetter", "itemgetter"}

(***************************************************************************)
(* C8, amended: & and | on the placeholder return a chain, the seven       *)
(* arithmetic operators a _MathExpression, attribute and item access a     *)
(* getter, and the comparisons, the shifts, ^, divmod and the unary        *)
(* operators a plain function of one argument: a closure over the operand, *)
(* or the builtin of the operator module.                                  *)
(***************************************************************************)
C8_OperatorsYieldExpressionsGettersOrFunctions ==
    (last.op # "import" /\ last.self = ChainRef(0)) =>
        /\ last.op \in Combinators => last.ret = ChainRef(Len(chains))
        /\ last.op \in ArithmeticMethods => last.ret = MathRef(Len(maths))
        /\ last.op = "__getattr__" => last.ret[1] = "attrgetter"
        /\ last.op = "__getitem__" => last.ret[1] = "itemgetter"
        /\ last.op \in FmapMethods =>
              /\ last.ret[1] = "function"
              /\ last.ret[2][2] = last.arg
        /\ last.op \in UnaryMethods => last.ret[1] = "builtin_function_or_method"
        /\ last.op \in Combinators \cup ArithmeticMethods \cup FmapMethods
                          \cup UnaryMethods \cup {"__getattr__", "__getitem__"}

\* _ < 2 is a function.
C8_Witness ==
    /\ last.op = "__lt__"
    /\ last.self = ChainRef(0)
    /\ last.arg = IntVal(2)
    /\ last.ret = <<"function", <<(<<FALSE, "lt">>), IntVal(2)>>>>
    /\ Len(chains) + Len(maths) = 1

(***************************************************************************)
(* C10: an arithmetic operator applied to a _MathExpression adds exactly   *)
(* one operation at the end of its list, leaves the earlier ones as they   *)
(* were and in order, makes no new object and returns the expression       *)
(* itself, so the expression and the result give the same on every input.  *)
(***************************************************************************)
C10_OperatorAppendsAndReturnsSelf ==
    [][(maths' # maths /\ last'.self[1] = "math") =>
          LET i == last'.self[2]
          IN  /\ last'.op \in ArithmeticMethods
              /\ Len(maths') = Len(maths)
              /\ Len(maths'[i]) = Len(maths[i]) + 1
              /\ SubSeq(maths'[i], 1, Len(maths[i])) = maths[i]
              /\ maths'[i][Len(maths'[i])][3] = last'.arg
              /\ \A j \in 1..Len(maths) : j # i => maths'[j] = maths[j]
              /\ last'.ret = MathRef(i)
              /\ \A x \in MathInputs :
                    MathExpression_call(maths'[last'.ret[2]], x) =
                        MathExpression_call(maths'[i], x)]_vars

C10_Witness ==
    /\ last.op = "__rsub__"
    /\ last.self = MathRef(1)
    /\ last.ret = MathRef(1)
    /\ Len(maths) = 1
    /\ maths[1] = <<(<<TRUE, "mul", IntVal(3)>>), (<<FALSE, "sub", IntVal(2)>>)>>

(***************************************************************************)
(* C11: every _MathExpression made from the placeholder by an arithmetic   *)
(* operator, and then operated on and called in any order, holds at least  *)
(* one recorded operation; so no call of one finds an empty list, and the  *)
(* ValueError of unpacking `first_operation, *rest` from an empty list is  *)
(* never the result of a call.                                             *)
(***************************************************************************)
C11_EmptyExpressionUnreachable ==
    /\ \A i \in 1..Len(maths) :
          /\ Len(maths[i]) >= 1
          /\ \A number \in MathInputs :
                MathExpression_call(maths[i], number) # Raise("ValueError")
    /\ (last.op = "__call__" /\ last.self[1] = "math") =>
          /\ maths[last.self[2]] # MathExpression_init
          /\ last.ret # Raise("ValueError")
    /\ (last.op \in ArithmeticMethods /\ last.ret[1] = "math") =>
          maths[last.ret[2]] # MathExpression_init

\* (_ + 2)(3) is 5: the expression made by one operator on the placeholder
\* is called with its single operation.
C11_Witness ==
    /\ last.op = "__call__"
    /\ last.self = MathRef(1)
    /\ last.arg = IntVal(3)
    /\ last.ret = IntVal(5)
    /\ maths[1] = <<(<<TRUE, "add", IntVal(2)>>)>>

====
